---- MODULE Spec2Model ----
(***************************************************************************)
(* A model of dagmath: the expression graph of src/src/core.ts (class DAG, *)
(* Expr, Value, FuncCall, Var, VarRef) and the operator-precedence         *)
(* resolver of src/src/parser.ts (Parser.ensureExpr).                      *)
(***************************************************************************)
EXTENDS Integers, Sequences, FiniteSets, TLC

VARIABLES
    vars,           \* DAG.vars: name -> the Var's value (an expression node)
    lastModified,   \* DAG.lastModified
    funcs,          \* DAG.funcs: the names that have a native function
    lastEvaluated,  \* Expr.lastEvaluated of every expression node
    latestVal,      \* Expr._latestValue of every expression node
    calls,          \* native invocations per FuncCall node since the last successful setValue
    reads,          \* successful latestValue reads per FuncCall node since then
    outcome,        \* what the last operation was and how it ended
    children,       \* OpExpr.children: the chain handed to Parser.ensureExpr
    opinfos,        \* Parser.opinfos: operator symbol -> Operator
    result,         \* what ensureExpr returned or threw, once it has run
    unitsMap,       \* DAG.unitsMap: key -> the Units instance interned under it
    allocated,      \* how many objects the constructors have allocated so far
    issued          \* the constructor calls made so far and the instance each returned

dagVars == <<vars, lastModified, funcs, lastEvaluated, latestVal, calls, reads, outcome>>
parserVars == <<children, opinfos, result>>
internVars == <<unitsMap, allocated, issued>>
allVars == <<dagVars, parserVars, internVars>>

(***************************************************************************)
(* Bounds of the model.                                                    *)
(***************************************************************************)
\* counters of invocations and reads are capped here
MaxCount == 2
\* the longest chain handed to the resolver
MaxLen == 7
\* binding powers and prefix binding powers range over 0..MaxBP
MaxBP == 2
\* the constructor calls (newUnits, newBool, newNum) made on one graph
MaxCalls == 3
\* the longest chain of any shape handed to the resolver
MaxAnyLen == 5

(***************************************************************************)
(* JavaScript values held by Value nodes.                                  *)
(***************************************************************************)
JsNull == [t |-> "null", v |-> 0]
Num(n) == [t |-> "number", v |-> n]
Bool(b) == [t |-> "boolean", v |-> IF b THEN 1 ELSE 0]

\* ToNumber as used by `out += v.value`: null converts to 0
ToNumber(jv) == IF jv.t = "null" THEN 0 ELSE jv.v

(***************************************************************************)
(* The expression nodes the client has constructed.  Nodes are immutable   *)
(* after construction (only their evaluation cache changes), so the arena  *)
(* is a fixed table: node id -> structure.                                 *)
(***************************************************************************)
NULL == 1
ZERO == 2
V3 == 3
V4 == 4
Rx == 5
Rz == 6
Fx4 == 7
ONE == 8
DagTRUE == 9
DagFALSE == 10

ValueNode(jv) == [type |-> "Value", value |-> jv, name |-> "", args |-> <<>>]
VarRefNode(n) == [type |-> "VarRef", value |-> JsNull, name |-> n, args |-> <<>>]
FuncCallNode(f, as) == [type |-> "FuncCall", value |-> JsNull, name |-> f, args |-> as]

Pool == <<
    ValueNode(JsNull),              \* dag.NULL
    ValueNode(Num(0)),              \* dag.ZERO
    ValueNode(Num(3)),              \* d.newNum(3)
    ValueNode(Num(4)),              \* d.newNum(4)
    VarRefNode("x"),                \* d.newVarRef("x")
    VarRefNode("z"),                \* d.newVarRef("z")
    FuncCallNode("+", <<Rx, V4>>),  \* d.newFunc("+", [d.newVarRef("x"), d.newNum(4)])
    ValueNode(Num(1)),              \* dag.ONE
    ValueNode(Bool(TRUE)),          \* dag.TRUE
    ValueNode(Bool(FALSE))          \* dag.FALSE
>>

Nodes == DOMAIN Pool
Names == {"x", "y", "z"}
FuncNames == {"+"}
FuncCalls == {e \in Nodes : Pool[e].type = "FuncCall"}
Cached == {e \in Nodes : Pool[e].type # "Value"}

\* what the client passes to setValue: an expression node, or 0 for null
NoExpr == 0
Inputs == {NoExpr, V3, V4, Rx, Rz, Fx4}

\* the deepest call chain an acyclic graph over Nodes and Names can produce;
\* a recursion that goes deeper never returns (the engine's RangeError)
StackLimit == Cardinality(Nodes) + Cardinality(Names) + 1

\* a Value handed back by an evaluation: a node of the arena, or (id 0) a Value
\* the native function allocated
Handle(e) == [id |-> e, value |-> Pool[e].value]
Fresh(jv) == [id |-> 0, value |-> jv]

(***************************************************************************)
(* DAG.getVar(varname): the Var's value, or absent.                        *)
(***************************************************************************)
hasVar(vs, varname) == varname \in DOMAIN vs

\* getVar(varname, true): the table after the fetch-or-create
getVarEnsure(vs, varname) ==
    IF hasVar(vs, varname) THEN vs
    ELSE [n \in DOMAIN vs \cup {varname} |-> IF n = varname THEN NULL ELSE vs[n]]

\* getVar with the Var created whatever ensure says
getVarAlways(vs, varname, ensure) == getVarEnsure(vs, varname)
\* getVar(varname, ensure): the table after the call
getVar(vs, varname, ensure) == IF ensure THEN getVarEnsure(vs, varname) ELSE vs

\* exprContainsVar as it would be without lines 154-155: a VarRef to another
\* variable is not followed into that variable's defining expression
RECURSIVE exprContainsVarSyntactic(_, _, _, _)
exprContainsVarSyntactic(expr, varname, vs, fuel) ==
    IF expr = NoExpr \/ Pool[expr].type = "Value" THEN "false"
    ELSE IF Pool[expr].type = "VarRef"
    THEN (IF Pool[expr].name = varname THEN "true" ELSE "false")
    ELSE IF \E i \in DOMAIN Pool[expr].args :
                exprContainsVarSyntactic(Pool[expr].args[i], varname, vs, fuel) = "true"
    THEN "true"
    ELSE "false"

\* exprContainsVar taking every VarRef to a bound variable for a hit
RECURSIVE exprContainsVarEager(_, _, _, _)
exprContainsVarEager(expr, varname, vs, fuel) ==
    IF expr = NoExpr \/ Pool[expr].type = "Value" THEN "false"
    ELSE IF Pool[expr].type = "VarRef"
    THEN (IF Pool[expr].name = varname \/ hasVar(vs, Pool[expr].name) THEN "true" ELSE "false")
    ELSE IF \E i \in DOMAIN Pool[expr].args :
                exprContainsVarEager(Pool[expr].args[i], varname, vs, fuel) = "true"
    THEN "true"
    ELSE "false"

(***************************************************************************)
(* DAG.exprContainsVar(expr, varname), over the table vs.                  *)
(* "true", "false", or "overflow" when the recursion exceeds the stack.    *)
(***************************************************************************)
RECURSIVE exprContainsVar(_, _, _, _)
RECURSIVE argsContainVar(_, _, _, _, _)

argsContainVar(as, i, varname, vs, fuel) ==
    IF i > Len(as) THEN "false"
    ELSE LET r == exprContainsVar(as[i], varname, vs, fuel)
         IN  IF r = "false" THEN argsContainVar(as, i + 1, varname, vs, fuel) ELSE r

exprContainsVar(expr, varname, vs, fuel) ==
    IF fuel = 0 THEN "overflow"
    ELSE IF expr = NoExpr \/ Pool[expr].type = "Value" THEN "false"
    ELSE IF Pool[expr].type = "VarRef" THEN
        LET vname == Pool[expr].name
        IN  IF vname = varname THEN "true"
            ELSE IF hasVar(vs, vname)
                 THEN exprContainsVar(vs[vname], varname, vs, fuel - 1)
                 ELSE "false"
    ELSE argsContainVar(Pool[expr].args, 1, varname, vs, fuel - 1)

\* setValue as it would be without the check of lines 132-134
setValueUnchecked(vs, varname, newValue) ==
    LET nv == IF newValue = NoExpr THEN NULL ELSE newValue
        vs1 == getVarEnsure(vs, varname)
    IN  [vars |-> [vs1 EXCEPT ![varname] = nv], err |-> "none"]

\* setValue as it would be with the assignment of line 138 placed before the
\* check of line 132
setValueAssignFirst(vs, varname, newValue) ==
    LET nv == IF newValue = NoExpr THEN NULL ELSE newValue
        vs1 == getVarEnsure(vs, varname)
        vs2 == [vs1 EXCEPT ![varname] = nv]
        c == exprContainsVar(nv, varname, vs1, StackLimit)
    IN  IF c = "true" THEN [vars |-> vs2, err |-> "CircularReferenceError"]
        ELSE IF c = "overflow" THEN [vars |-> vs2, err |-> "RangeError"]
        ELSE [vars |-> vs2, err |-> "none"]

(***************************************************************************)
(* DAG.setValue(varname, newValue): the name table it leaves and the error *)
(* it throws ("none" when it returns the Var).                             *)
(***************************************************************************)
setValue(vs, varname, newValue) ==
    LET nv == IF newValue = NoExpr THEN NULL ELSE newValue
        vs1 == getVarEnsure(vs, varname)
        c == exprContainsVar(nv, varname, vs1, StackLimit)
    IN  IF c = "true" THEN [vars |-> vs1, err |-> "CircularReferenceError"]
        ELSE IF c = "overflow" THEN [vars |-> vs1, err |-> "RangeError"]
        ELSE [vars |-> [vs1 EXCEPT ![varname] = nv], err |-> "none"]

\* DAG.lastModified after a setValue that returned: no statement of setValue
\* (nor of any other method) assigns lastModified
modifiedAfterSet(lm) == lm

(***************************************************************************)
(* The native functions of src/src/stdlib.ts that the graph registers.     *)
(***************************************************************************)
RECURSIVE Plus(_)
Plus(values) ==
    IF Len(values) = 0 THEN 0
    ELSE Plus(SubSeq(values, 1, Len(values) - 1)) + ToNumber(values[Len(values)].value)

Native(f, values) == Num(Plus(values))

(***************************************************************************)
(* Expr.latestValue and the eval() of each node type.  An evaluation       *)
(* threads the caches through the recursion: st holds lastEvaluated (le),  *)
(* _latestValue (lv), the counters, the Value returned (ret), the list of  *)
(* argument Values (vals), the error thrown (err) and the name table       *)
(* (vars).  g is the graph: vars, lastModified, funcs.                     *)
(***************************************************************************)
Bump(k) == IF k < MaxCount THEN k + 1 ELSE k

RECURSIVE LatestValue(_, _, _, _)
RECURSIVE Eval(_, _, _, _)
RECURSIVE EvalArgs(_, _, _, _, _)

\* whether latestValue recomputes: lastEvaluated < dag.lastModified
needsUpdate(le, lm) == le < lm

\* latestValue stamping lastEvaluated even when eval() threw
LatestValueStampsFailure(e, st, g, fuel) ==
    IF fuel = 0 THEN [st EXCEPT !.err = "RangeError"]
    ELSE IF Pool[e].type = "Value" THEN [st EXCEPT !.ret = Handle(e)]
    ELSE LET r == IF needsUpdate(st.le[e], g.lastModified)
                  THEN LET ev == Eval(e, st, g, fuel - 1)
                       IN  IF ev.err # "none" THEN [ev EXCEPT !.le[e] = g.lastModified]
                           ELSE [ev EXCEPT !.lv[e] = ev.ret, !.le[e] = g.lastModified]
                  ELSE [st EXCEPT !.ret = st.lv[e]]
         IN  IF r.err = "none" /\ e \in FuncCalls
             THEN [r EXCEPT !.reads[e] = Bump(r.reads[e])]
             ELSE r

LatestValue(e, st, g, fuel) ==
    IF fuel = 0 THEN [st EXCEPT !.err = "RangeError"]
    ELSE IF Pool[e].type = "Value" THEN [st EXCEPT !.ret = Handle(e)]
    ELSE LET r == IF needsUpdate(st.le[e], g.lastModified)
                  THEN LET ev == Eval(e, st, g, fuel - 1)
                       IN  IF ev.err # "none" THEN ev
                           ELSE [ev EXCEPT !.lv[e] = ev.ret, !.le[e] = g.lastModified]
                  ELSE [st EXCEPT !.ret = st.lv[e]]
         IN  IF r.err = "none" /\ e \in FuncCalls
             THEN [r EXCEPT !.reads[e] = Bump(r.reads[e])]
             ELSE r

\* FuncCall.eval: this.args.map((a) => a.latestValue)
EvalArgs(as, i, st, g, fuel) ==
    IF i > Len(as) THEN st
    ELSE LET r == LatestValue(as[i], st, g, fuel)
         IN  IF r.err # "none" THEN r
             ELSE EvalArgs(as, i + 1, [r EXCEPT !.vals = Append(st.vals, r.ret)], g, fuel)

\* eval with FuncCall.eval calling whatever getFunc returned, lines 230-232
\* left out
EvalUnchecked(e, st, g, fuel) ==
    IF fuel = 0 THEN [st EXCEPT !.err = "RangeError"]
    ELSE IF Pool[e].type = "VarRef" THEN
        LET s1 == [st EXCEPT !.vars = getVar(st.vars, Pool[e].name, FALSE)]
        IN  IF hasVar(s1.vars, Pool[e].name)
            THEN LatestValue(s1.vars[Pool[e].name], s1, g, fuel - 1)
            ELSE [s1 EXCEPT !.ret = Handle(NULL)]
    ELSE
        LET r == EvalArgs(Pool[e].args, 1, [st EXCEPT !.vals = <<>>], g, fuel - 1)
        IN  IF r.err # "none" THEN [r EXCEPT !.vals = st.vals]
            ELSE [r EXCEPT !.ret = Fresh(Native(Pool[e].name, r.vals)),
                           !.calls[e] = Bump(r.calls[e]),
                           !.vals = st.vals]

Eval(e, st, g, fuel) ==
    IF fuel = 0 THEN [st EXCEPT !.err = "RangeError"]
    ELSE IF Pool[e].type = "VarRef" THEN
        \* VarRef.eval: this.dag.getVar(this.name), then Var.latestValue
        LET s1 == [st EXCEPT !.vars = getVar(st.vars, Pool[e].name, FALSE)]
        IN  IF hasVar(s1.vars, Pool[e].name)
            THEN LatestValue(s1.vars[Pool[e].name], s1, g, fuel - 1)
            ELSE [s1 EXCEPT !.ret = Handle(NULL)]
    ELSE
        \* FuncCall.eval
        LET r == EvalArgs(Pool[e].args, 1, [st EXCEPT !.vals = <<>>], g, fuel - 1)
        IN  IF r.err # "none" THEN [r EXCEPT !.vals = st.vals]
            ELSE IF Pool[e].name \notin g.funcs
            THEN [r EXCEPT !.err = "InvalidRefError", !.vals = st.vals]
            ELSE [r EXCEPT !.ret = Fresh(Native(Pool[e].name, r.vals)),
                           !.calls[e] = Bump(r.calls[e]),
                           !.vals = st.vals]

NoRet == [id |-> 0 - 1, value |-> JsNull]
Graph == [vars |-> vars, lastModified |-> lastModified, funcs |-> funcs]
Start == [le |-> lastEvaluated, lv |-> latestVal, calls |-> calls, reads |-> reads,
          ret |-> NoRet, vals |-> <<>>, err |-> "none", vars |-> vars]

(***************************************************************************)
(* The constructors of the graph: newUnits, newBool, newNum.               *)
(*                                                                         *)
(* A unit name is a string, modelled as the sequence of its characters; a  *)
(* key of unitsMap is a string too.  An object is known by the number the  *)
(* allocation that made it had; the nodes of the arena come first.         *)
(***************************************************************************)
\* the UTF-16 code units Array.prototype.sort compares strings by
Code(c) == CASE c = "/" -> 47 [] c = ":" -> 58 [] c = "a" -> 97 [] c = "b" -> 98

\* s < t as strings
RECURSIVE StrLess(_, _)
StrLess(s, t) ==
    IF t = <<>> THEN FALSE
    ELSE IF s = <<>> THEN TRUE
    ELSE IF Code(Head(s)) # Code(Head(t)) THEN Code(Head(s)) < Code(Head(t))
    ELSE StrLess(Tail(s), Tail(t))

RECURSIVE Insert(_, _)
Insert(x, sorted) ==
    IF sorted = <<>> THEN <<x>>
    ELSE IF StrLess(x, Head(sorted)) THEN <<x>> \o sorted
    ELSE <<Head(sorted)>> \o Insert(x, Tail(sorted))

\* the list left as it was given
Unsorted(list) == list
\* const sorted = [...list]; sorted.sort()
RECURSIVE Sort(_)
Sort(list) == IF list = <<>> THEN <<>> ELSE Insert(Head(list), Sort(Tail(list)))

\* list.join(sep)
RECURSIVE Join(_, _)
Join(list, sep) ==
    IF list = <<>> THEN <<>>
    ELSE IF Len(list) = 1 THEN list[1]
    ELSE list[1] \o <<sep>> \o Join(Tail(list), sep)

\* sortednum.join(":") + "/" + sortedden.join(":")
UnitsKey(num, den) == Join(Sort(num), ":") \o <<"/">> \o Join(Sort(den), ":")

\* the object made by the (n+1)-th allocation
Alloc(n) == Cardinality(Nodes) + n + 1

\* d.newUnits(num, den) on the registry um after n allocations
newUnits(um, n, num, den) ==
    LET key == UnitsKey(num, den)
    IN  IF key \in DOMAIN um
        THEN [unitsMap |-> um, allocated |-> n, out |-> um[key]]
        ELSE [unitsMap |-> [k \in DOMAIN um \cup {key} |-> IF k = key THEN Alloc(n) ELSE um[k]],
              allocated |-> n + 1,
              out |-> Alloc(n)]

\* d.newBool(value)
newBool(value) == IF value THEN DagTRUE ELSE DagFALSE

\* d.newNum(value) after n allocations: new Value(this, value)
newNum(n, value) == [allocated |-> n + 1, out |-> Alloc(n)]

\* the unit names and the name lists the client passes
UnitNames == {<<"a">>, <<"b">>, <<"a", ":", "b">>}
NumLists ==
    {<<>>, <<<<"a">>>>, <<<<"a">>, <<"a">>>>, <<<<"a">>, <<"b">>>>, <<<<"b">>, <<"a">>>>,
     <<<<"a", ":", "b">>>>}
DenLists == {<<>>, <<<<"a">>, <<"b">>>>, <<<<"b">>, <<"a">>>>}
\* the numbers the client passes to newNum
NumArgs == {0, 1, 3}

\* a call and the instance it returned
Issued(call, num, den, value, out) ==
    [call |-> call, num |-> num, den |-> den, value |-> value, out |-> out]

(***************************************************************************)
(* The resolver: Parser.ensureExpr of src/src/parser.ts.                   *)
(*                                                                         *)
(* A child of the chain is an operator symbol (a string, isOP true) or an  *)
(* expression (isOP false).  The expression at index k of the chain is     *)
(* modelled as Term(k), so a tree names the terms it holds by position.    *)
(* Indices are 0-based as in the code.                                     *)
(***************************************************************************)
LEFT == -1
NOASSOC == 0
RIGHT == 1

TermTok == "term"
Symbols == {"+", "^"}

Term(k) == [func |-> "", index |-> k, args |-> <<>>]
\* dag.newFunc(name, args)
newFunc(name, args) == [func |-> name, index |-> 0 - 1, args |-> args]

isOP(ch, index) == ch[index + 1] # TermTok
hasMore(ch, i) == i < Len(ch)

\* the floor of the loop of parse: rbp < bpof(peek())
exceedsOrEquals(bp, rbp) == rbp <= bp
exceedsByTwo(bp, rbp) == rbp + 1 < bp
exceeds(bp, rbp) == rbp < bp

\* the floor led hands to the nested parse of a LEFT operator
leftFloorLowered(op) == op.bp - 1
leftFloor(op) == op.bp

\* the floor led hands to the nested parse of a RIGHT operator
rightFloorSame(op) == op.bp
rightFloor(op) == op.bp - 1

\* the floor nud hands to the nested parse of a prefix operator
prefixFloorInfix(op) == op.bp
prefixFloor(op) == op.prefixBP

\* A call threads the cursor: st.i is the index of the current token,
\* st.consumed the indices next() has returned so far, st.expr the expression
\* returned, st.err the error thrown ("none" if none).
Swallow(st, msg) == st
Throw(st, msg) == [st EXCEPT !.err = msg]

RECURSIVE parse(_, _, _, _)
RECURSIVE parseLoop(_, _, _, _)
RECURSIVE nud(_, _, _, _)
RECURSIVE led(_, _, _, _, _)

nud(index, ch, ops, st) ==
    IF ~isOP(ch, index) THEN [st EXCEPT !.expr = Term(index)]
    ELSE IF ch[index + 1] \notin DOMAIN ops THEN Throw(st, "Invalid operator")
    ELSE LET op == ops[ch[index + 1]]
         IN  IF op.prefixBP < 0 THEN Throw(st, "not a prefix operator")
             ELSE LET r == parse(prefixFloor(op), ch, ops, st)
                  IN  IF r.err # "none" THEN r
                      ELSE [r EXCEPT !.expr = newFunc(op.op, <<r.expr>>)]

\* led with no rejection of the NONE associativity
ledNoneAsLeft(index, left, ch, ops, st) ==
    IF ~isOP(ch, index) THEN Throw(st, "Expressions cannot have an LED method")
    ELSE IF ch[index + 1] \notin DOMAIN ops THEN Throw(st, "Invalid operator")
    ELSE LET op == ops[ch[index + 1]]
             r == parse(IF op.assoc = RIGHT THEN rightFloor(op) ELSE leftFloor(op), ch, ops, st)
         IN  IF r.err # "none" THEN r
             ELSE [r EXCEPT !.expr = newFunc(op.op, <<left, r.expr>>)]

led(index, left, ch, ops, st) ==
    IF ~isOP(ch, index) THEN Throw(st, "Expressions cannot have an LED method")
    ELSE IF ch[index + 1] \notin DOMAIN ops THEN Throw(st, "Invalid operator")
    ELSE LET op == ops[ch[index + 1]]
         IN  IF op.assoc = LEFT
             THEN LET r == parse(leftFloor(op), ch, ops, st)
                  IN  IF r.err # "none" THEN r
                      ELSE [r EXCEPT !.expr = newFunc(op.op, <<left, r.expr>>)]
             ELSE IF op.assoc = RIGHT
             THEN LET r == parse(rightFloor(op), ch, ops, st)
                  IN  IF r.err # "none" THEN r
                      ELSE [r EXCEPT !.expr = newFunc(op.op, <<left, r.expr>>)]
             ELSE Throw(st, "nonassoc")

\* the loop of parse with t = peek() in place of t = next()
parseLoopPeeks(rbp, ch, ops, st) ==
    IF ~hasMore(ch, st.i) THEN st
    ELSE IF ~isOP(ch, st.i) THEN Throw(st, "Item at index is not an operator")
    ELSE IF ch[st.i + 1] \notin DOMAIN ops THEN Throw(st, "Invalid operator")
    ELSE IF ~exceeds(ops[ch[st.i + 1]].bp, rbp) THEN st
    ELSE LET t == st.i
             r == led(t, st.expr, ch, ops, [st EXCEPT !.consumed = Append(st.consumed, t)])
         IN  IF r.err # "none" THEN r ELSE parseLoop(rbp, ch, ops, r)

\* the while loop of parse, entered with left in st.expr
parseLoop(rbp, ch, ops, st) ==
    IF ~hasMore(ch, st.i) THEN st
    \* bpof(peek())
    ELSE IF ~isOP(ch, st.i) THEN Throw(st, "Item at index is not an operator")
    ELSE IF ch[st.i + 1] \notin DOMAIN ops THEN Throw(st, "Invalid operator")
    ELSE IF ~exceeds(ops[ch[st.i + 1]].bp, rbp) THEN st
    ELSE \* t = next(); left = led(t, left)
         LET t == st.i
             r == led(t, st.expr, ch, ops,
                      [st EXCEPT !.i = t + 1, !.consumed = Append(st.consumed, t)])
         IN  IF r.err # "none" THEN r ELSE parseLoop(rbp, ch, ops, r)

parse(rbp, ch, ops, st) ==
    \* t = next()
    IF ~hasMore(ch, st.i) THEN Throw(st, "No more tokens")
    ELSE LET t == st.i
             r == nud(t, ch, ops, [st EXCEPT !.i = t + 1, !.consumed = Append(st.consumed, t)])
         IN  IF r.err # "none" THEN r ELSE parseLoop(rbp, ch, ops, r)

NoExprYet == Term(0 - 1)
ensureExpr(ch, ops) ==
    parse(0, ch, ops, [i |-> 0, consumed |-> <<>>, expr |-> NoExprYet, err |-> "none"])

(***************************************************************************)
(* What the resolver is handed.  The grammar of parser.ts builds a chain   *)
(* as [OPList] Term (OPList Term)*: it ends in a term and no two terms are *)
(* adjacent.  setOP fills the table; "+" may be a prefix operator, and "^" *)
(* may be left out of the table.                                           *)
(***************************************************************************)
Tokens == Symbols \cup {TermTok}

RECURSIVE SeqsUpTo(_, _)
SeqsUpTo(S, n) ==
    IF n = 0 THEN {<<>>}
    ELSE LET shorter == SeqsUpTo(S, n - 1)
         IN  shorter \cup {Append(q, x) : q \in {q \in shorter : Len(q) = n - 1}, x \in S}

Chains ==
    {ch \in SeqsUpTo(Tokens, MaxLen) :
        /\ Len(ch) >= 1
        /\ ch[Len(ch)] = TermTok
        /\ \A k \in 1..(Len(ch) - 1) : ~(ch[k] = TermTok /\ ch[k + 1] = TermTok)}

Assocs == {LEFT, NOASSOC, RIGHT}
\* new Operator(op, bp, assoc, prefixBP); prefixBP defaults to -1
Operator(op, bp, assoc, prefixBP) == [op |-> op, bp |-> bp, assoc |-> assoc, prefixBP |-> prefixBP]
NoPrefix == -1

Tables ==
    LET plus == {Operator("+", bp, a, p) : bp \in 0..MaxBP, a \in Assocs, p \in {NoPrefix} \cup 0..MaxBP}
        hat == {Operator("^", bp, a, NoPrefix) : bp \in 0..MaxBP, a \in Assocs}
    IN  {[s \in {"+"} |-> o1] : o1 \in plus}
        \cup {[s \in Symbols |-> IF s = "+" THEN o1 ELSE o2] : o1 \in plus, o2 \in hat}

Pending == [i |-> 0, consumed |-> <<>>, expr |-> NoExprYet, err |-> "pending"]

(***************************************************************************)
(* The graph after construction: new DAG().                                *)
(***************************************************************************)
EmptyMap == [n \in {} |-> NULL]

DagInit ==
    /\ vars = EmptyMap
    /\ lastModified = 0
    /\ funcs = {}
    /\ lastEvaluated = [e \in Cached |-> 0 - 1]
    /\ latestVal = [e \in Cached |-> Handle(ZERO)]
    /\ calls = [e \in FuncCalls |-> 0]
    /\ reads = [e \in FuncCalls |-> 0]
    /\ outcome = [op |-> "new", err |-> "none"]
    /\ unitsMap = [k \in {} |-> 0]
    /\ allocated = 0
    /\ issued = {}

(***************************************************************************)
(* The operations of the graph.                                            *)
(***************************************************************************)
\* d.setValue(varname, newValue)
SetValue(varname, newValue) ==
    LET r == setValue(vars, varname, newValue)
    IN  /\ vars' = r.vars
        /\ lastModified' = IF r.err = "none" THEN modifiedAfterSet(lastModified) ELSE lastModified
        /\ calls' = IF r.err = "none" THEN [e \in FuncCalls |-> 0] ELSE calls
        /\ reads' = IF r.err = "none" THEN [e \in FuncCalls |-> 0] ELSE reads
        /\ outcome' = [op |-> "setValue", err |-> r.err]
        /\ UNCHANGED <<funcs, lastEvaluated, latestVal, parserVars, internVars>>

\* d.newVar(varname, expr): return this.setValue(varname, expr)
NewVar(varname, expr) == SetValue(varname, expr)

RegFunc(name) ==
    /\ funcs' = funcs \cup {name}
    /\ outcome' = [op |-> "regFunc", err |-> "none"]
    /\ UNCHANGED <<vars, lastModified, lastEvaluated, latestVal, calls, reads, parserVars,
                   internVars>>

\* expr.latestValue, for an expression node the client holds
Read(e) ==
    LET r == LatestValue(e, Start, Graph, StackLimit)
    IN  /\ lastEvaluated' = r.le
        /\ latestVal' = r.lv
        /\ calls' = r.calls
        /\ reads' = r.reads
        /\ vars' = r.vars
        /\ outcome' = [op |-> "latestValue", err |-> r.err]
        /\ UNCHANGED <<lastModified, funcs, parserVars, internVars>>

\* v.latestValue, for a Var the client got from getVar/setValue
ReadVar(varname) ==
    /\ hasVar(vars, varname)
    /\ LET r == LatestValue(vars[varname], Start, Graph, StackLimit)
       IN  /\ lastEvaluated' = r.le
           /\ latestVal' = r.lv
           /\ calls' = r.calls
           /\ reads' = r.reads
           /\ vars' = r.vars
           /\ outcome' = [op |-> "latestValue", err |-> r.err]
    /\ UNCHANGED <<lastModified, funcs, parserVars, internVars>>

\* a graph in use, with no resolver running
Init ==
    /\ DagInit
    /\ children = <<TermTok>>
    /\ opinfos = [s \in {} |-> 0]
    /\ result = Pending

Next ==
    \/ \E n \in Names, e \in Inputs : SetValue(n, e)
    \/ \E n \in Names, e \in Inputs : NewVar(n, e)
    \/ \E f \in FuncNames : RegFunc(f)
    \/ \E e \in Nodes : Read(e)
    \/ \E n \in Names : ReadVar(n)

Spec == Init /\ [][Next]_allVars

(***************************************************************************)
(* The resolver applied to a chain under an operator table.                *)
(***************************************************************************)
ParserInit ==
    /\ DagInit
    /\ children \in Chains
    /\ opinfos \in Tables
    /\ result = Pending

\* p.ensureExpr(opexpr)
EnsureExpr ==
    /\ result.err = "pending"
    /\ result' = ensureExpr(children, opinfos)
    /\ UNCHANGED <<children, opinfos, dagVars, internVars>>

ParserNext == EnsureExpr

SpecParser == ParserInit /\ [][ParserNext]_allVars

(***************************************************************************)
(* The resolver applied to a chain of any shape: an OpExpr holds whatever  *)
(* was pushed, the empty chain and chains that break the grammar included. *)
(***************************************************************************)
AnyChains == SeqsUpTo(Tokens, MaxAnyLen)

ParserAnyInit ==
    /\ DagInit
    /\ children \in AnyChains
    /\ opinfos \in Tables
    /\ result = Pending

SpecParserAny == ParserAnyInit /\ [][ParserNext]_allVars

(***************************************************************************)
(* The constructors called on a graph, MaxCalls calls at most.             *)
(***************************************************************************)
\* d.newUnits(num, den)
NewUnits(num, den) ==
    /\ Cardinality(issued) < MaxCalls
    /\ LET r == newUnits(unitsMap, allocated, num, den)
       IN  /\ unitsMap' = r.unitsMap
           /\ allocated' = r.allocated
           /\ issued' = issued \cup {Issued("newUnits", num, den, JsNull, r.out)}
    /\ UNCHANGED <<dagVars, parserVars>>

\* d.newBool(value)
NewBool(value) ==
    /\ Cardinality(issued) < MaxCalls
    /\ issued' = issued \cup {Issued("newBool", <<>>, <<>>, Bool(value), newBool(value))}
    /\ UNCHANGED <<unitsMap, allocated, dagVars, parserVars>>

\* d.newNum(value)
NewNum(value) ==
    /\ Cardinality(issued) < MaxCalls
    /\ LET r == newNum(allocated, value)
       IN  /\ allocated' = r.allocated
           /\ issued' = issued \cup {Issued("newNum", <<>>, <<>>, Num(value), r.out)}
    /\ UNCHANGED <<unitsMap, dagVars, parserVars>>

InternNext ==
    \/ \E num \in NumLists, den \in DenLists : NewUnits(num, den)
    \/ \E b \in BOOLEAN : NewBool(b)
    \/ \E n \in NumArgs : NewNum(n)

SpecIntern == Init /\ [][InternNext]_allVars

(***************************************************************************)
(* Properties of the expression graph.                                     *)
(***************************************************************************)
\* the variable names an expression mentions, through FuncCall arguments
RECURSIVE NamesIn(_)
NamesIn(e) ==
    IF Pool[e].type = "Value" THEN {}
    ELSE IF Pool[e].type = "VarRef" THEN {Pool[e].name}
    ELSE UNION {NamesIn(Pool[e].args[i]) : i \in DOMAIN Pool[e].args}

\* the names reachable from the names S through the bindings of vs
RECURSIVE Closure(_, _, _)
Closure(S, vs, k) ==
    IF k = 0 THEN S
    ELSE Closure(S \cup UNION {NamesIn(vs[m]) : m \in S \cap DOMAIN vs}, vs, k - 1)

DependsOn(e, vs) == Closure(NamesIn(e), vs, Cardinality(Names))

\* the value of an expression under the bindings vs, computed without any cache
RECURSIVE CurrentValue(_, _)
CurrentValue(e, vs) ==
    IF Pool[e].type = "Value" THEN Pool[e].value
    ELSE IF Pool[e].type = "VarRef"
    THEN (IF Pool[e].name \in DOMAIN vs THEN CurrentValue(vs[Pool[e].name], vs) ELSE JsNull)
    ELSE Native(Pool[e].name,
                [i \in DOMAIN Pool[e].args |-> [value |-> CurrentValue(Pool[e].args[i], vs)]])

SetSucceeded == outcome.op = "setValue" /\ outcome.err = "none"
SetRejected == outcome.op = "setValue" /\ outcome.err = "CircularReferenceError"

\* C1: in every reachable state of the graph, no variable's defining
\* expression reaches, through FuncCall arguments and the bindings of the
\* variables it references, a VarRef with the variable's own name.
C1_Acyclic == \A n \in DOMAIN vars : n \notin DependsOn(vars[n], vars)

\* C1 witness: z = x + 4 is bound, and a setValue that would have closed a
\* cycle through it has just been rejected.
C1_Witness == SetRejected /\ "z" \in DOMAIN vars /\ vars["z"] = Fx4

\* C2: right after a successful setValue, a latestValue read of any FuncCall or
\* VarRef node, and of any Var, that returns, returns the value the node has
\* under the current bindings (never a value cached before the redefinition).
C2_NextReadIsCurrent ==
    SetSucceeded =>
        /\ \A e \in Cached :
              LET r == LatestValue(e, Start, Graph, StackLimit)
              IN  r.err = "none" => r.ret.value = CurrentValue(e, vars)
        /\ \A n \in DOMAIN vars :
              LET r == LatestValue(vars[n], Start, Graph, StackLimit)
              IN  r.err = "none" => r.ret.value = CurrentValue(vars[n], vars)

\* C3: every setValue that succeeds strictly increases lastModified, and no
\* operation decreases it.
C3_GenerationIncreases ==
    [][/\ lastModified' >= lastModified
       /\ (outcome'.op = "setValue" /\ outcome'.err = "none") => lastModified' > lastModified]_dagVars

\* C4: a setValue rejected with a circular-reference error leaves the binding
\* of every Var that existed before the call, the Var of the name it was
\* called on included, exactly as it was.
C4_RejectedKeepsBindings ==
    [][(outcome'.op = "setValue" /\ outcome'.err = "CircularReferenceError") =>
          \A n \in DOMAIN vars : n \in DOMAIN vars' /\ vars'[n] = vars[n]]_dagVars

\* C4 witness: x = 3 and z = x + 4, and setValue(x, ref z) has just been
\* rejected: x is still bound to the literal 3.
C4_Witness ==
    /\ SetRejected
    /\ DOMAIN vars = {"x", "z"}
    /\ vars["x"] = V3
    /\ vars["z"] = Fx4

\* C5: a setValue that fails leaves the whole graph state as it was: the
\* names of the name-to-Var table, every binding, and the generation.
C5_FailedSetChangesNothing ==
    [][(outcome'.op = "setValue" /\ outcome'.err # "none") =>
          (vars' = vars /\ lastModified' = lastModified)]_dagVars

\* C6: when a FuncCall node has been read successfully two or more times with
\* no setValue in between, its native function has been invoked exactly once
\* over those reads.
C6_InvokedExactlyOnce == \A f \in FuncCalls : reads[f] >= 2 => calls[f] = 1

VarRefs == {e \in Nodes : Pool[e].type = "VarRef"}

\* C13: in every reachable state, a latestValue read of a VarRef whose name
\* has no Var returns without error, returns the graph's NULL instance, and
\* leaves the name-to-Var table as it was (no Var is created for the name).
C13_UnboundReadsNull ==
    \A e \in VarRefs :
        ~hasVar(vars, Pool[e].name) =>
            LET r == LatestValue(e, Start, Graph, StackLimit)
            IN  /\ r.err = "none"
                /\ r.ret = Handle(NULL)
                /\ r.vars = vars

\* C13 witness: the VarRef to x has been read while x has no Var, and its
\* cache holds the NULL instance.
C13_Witness ==
    /\ outcome = [op |-> "latestValue", err |-> "none"]
    /\ ~hasVar(vars, "x")
    /\ lastEvaluated[Rx] = lastModified
    /\ latestVal[Rx] = Handle(NULL)

\* C14: in every reachable state, for a FuncCall naming a function that is
\* not registered: binding it to a name with setValue raises no
\* invalid-reference error, and succeeds whenever the FuncCall does not
\* depend on the name; a latestValue read of it raises the invalid-reference
\* error; and no operation other than an evaluation has raised that error.
C14_UnregisteredFailsAtEval ==
    /\ outcome.err = "InvalidRefError" => outcome.op = "latestValue"
    /\ \A f \in FuncCalls :
          Pool[f].name \notin funcs =>
              /\ \A n \in Names :
                    LET s == setValue(vars, n, f)
                    IN  /\ s.err # "InvalidRefError"
                        /\ n \notin DependsOn(f, vars) => (s.err = "none" /\ s.vars[n] = f)
              /\ LatestValue(f, Start, Graph, StackLimit).err = "InvalidRefError"

\* C14 witness: z is bound to x + 4 while + is not registered, and a read has
\* just failed with the invalid-reference error.
C14_Witness ==
    /\ "+" \notin funcs
    /\ hasVar(vars, "z") /\ vars["z"] = Fx4
    /\ outcome = [op |-> "latestValue", err |-> "InvalidRefError"]

\* the names reachable from the names S through the bindings of the bound
\* variables other than avoid
RECURSIVE ClosureAvoiding(_, _, _, _)
ClosureAvoiding(S, vs, avoid, k) ==
    IF k = 0 THEN S
    ELSE ClosureAvoiding(
             S \cup UNION {NamesIn(vs[m]) : m \in (S \ {avoid}) \cap DOMAIN vs},
             vs, avoid, k - 1)

\* a VarRef named varname is reachable from e through FuncCall arguments and
\* the defining expressions of the other bound variables
Reaches(e, varname, vs) ==
    varname \in ClosureAvoiding(NamesIn(e), vs, varname, Cardinality(Names))

\* C18: in every reachable state, for every name and every expression (null
\* included), setValue fails with the circular-reference error exactly when a
\* VarRef with that name is reachable from the expression through FuncCall
\* arguments and the current defining expressions of the other bound
\* variables, and returns otherwise.
C18_CycleCheckExact ==
    \A n \in Names, e \in Inputs :
        LET nv == IF e = NoExpr THEN NULL ELSE e
            s == setValue(vars, n, e)
        IN  /\ s.err \in {"none", "CircularReferenceError"}
            /\ (s.err = "CircularReferenceError") <=> Reaches(nv, n, vars)

\* C18 witness: z = x + 4 and y = ref z are bound, x is not bound to an
\* expression, and a setValue has just been rejected.
C18_Witness ==
    /\ SetRejected
    /\ DOMAIN vars = {"x", "y", "z"}
    /\ vars["x"] = NULL
    /\ vars["y"] = Rz
    /\ vars["z"] = Fx4

\* C20: in every reachable graph state no setValue (its cycle check) and no
\* latestValue read of an expression or of a Var has recursed past the depth
\* an acyclic graph allows: every one of them has returned or failed with an
\* error of the program.
C20_RecursionsReturn ==
    /\ outcome.err \in {"none", "CircularReferenceError", "InvalidRefError"}
    /\ \A e \in Cached :
          LatestValue(e, Start, Graph, StackLimit).err \in {"none", "InvalidRefError"}

\* C20 witness: with z = x + 4, y = ref z and x = 3, the VarRef to z has been
\* evaluated through z, the FuncCall, the VarRef to x and x.
C20_Witness ==
    /\ outcome = [op |-> "latestValue", err |-> "none"]
    /\ DOMAIN vars = {"x", "y", "z"}
    /\ vars["x"] = V3 /\ vars["y"] = Rz /\ vars["z"] = Fx4
    /\ lastEvaluated[Rz] = lastModified
    /\ latestVal[Rz].value = Num(7)

\* the caches a read left behind, as the start of the next read
After(r) == [r EXCEPT !.ret = NoRet, !.vals = <<>>, !.err = "none"]

\* the FuncCall an evaluation of e invokes first: e itself, or the FuncCall
\* the chain of variable references from e leads to (0 when there is none)
RECURSIVE CalledBy(_, _, _)
CalledBy(e, vs, k) ==
    IF Pool[e].type = "FuncCall" THEN e
    ELSE IF Pool[e].type = "VarRef" /\ hasVar(vs, Pool[e].name) /\ k > 0
    THEN CalledBy(vs[Pool[e].name], vs, k - 1)
    ELSE 0

\* C21: in every reachable state, when a latestValue read of an expression
\* fails with the invalid-reference error for an unregistered function, the
\* failure stamps no cache of the expression; and the read of the same
\* expression made once regFunc has registered the function, with no setValue
\* in between, returns without error the Value the native function has just
\* been invoked to compute from the values of the FuncCall's arguments.
C21_FailureNotCached ==
    \A e \in Cached :
        LET r1 == LatestValue(e, Start, Graph, StackLimit)
        IN  r1.err = "InvalidRefError" =>
                LET f == CalledBy(e, vars, Cardinality(Names))
                    g2 == [Graph EXCEPT !.funcs = funcs \cup FuncNames]
                    r2 == LatestValue(e, After(r1), g2, StackLimit)
                    as == EvalArgs(Pool[f].args, 1, After(r1), g2, StackLimit)
                IN  /\ r1.le[e] = lastEvaluated[e] /\ r1.lv[e] = latestVal[e]
                    /\ f \in FuncCalls
                    /\ r2.err = "none"
                    /\ r2.ret = Fresh(Native(Pool[f].name, as.vals))
                    /\ r2.calls[f] = Bump(r1.calls[f])
                    /\ r2.lv[e] = r2.ret /\ r2.le[e] = lastModified

\* C21 witness: with x = 3, a read of x + 4 has just failed because + is not
\* registered: the argument x is cached, the FuncCall is not.
C21_Witness ==
    /\ outcome = [op |-> "latestValue", err |-> "InvalidRefError"]
    /\ "+" \notin funcs
    /\ hasVar(vars, "x") /\ vars["x"] = V3
    /\ lastEvaluated[Rx] = lastModified
    /\ lastEvaluated[Fx4] < lastModified
    /\ LatestValue(Fx4, Start, [Graph EXCEPT !.funcs = {"+"}], StackLimit).ret = Fresh(Num(7))

(***************************************************************************)
(* Properties of the constructors.                                         *)
(***************************************************************************)
\* the instance the graph holds for a constant, 0 when it holds none
SingletonOf(value) ==
    IF value = Bool(TRUE) THEN DagTRUE
    ELSE IF value = Bool(FALSE) THEN DagFALSE
    ELSE IF value = Num(0) THEN ZERO
    ELSE IF value = Num(1) THEN ONE
    ELSE 0

\* C15: every newBool(true), newBool(false), newNum(0) and newNum(1) made so
\* far returned the graph's TRUE, FALSE, ZERO or ONE instance, so any two
\* constructions of the same constant returned the identical instance.
C15_SingletonLiterals ==
    /\ \A r \in issued :
          (r.call \in {"newBool", "newNum"} /\ SingletonOf(r.value) # 0) =>
              r.out = SingletonOf(r.value)
    /\ \A r1, r2 \in issued :
          (/\ r1.call \in {"newBool", "newNum"}
           /\ r1.call = r2.call
           /\ r1.value = r2.value
           /\ SingletonOf(r1.value) # 0) => r1.out = r2.out

Range(list) == {list[i] : i \in DOMAIN list}
Count(x, list) == Cardinality({i \in DOMAIN list : list[i] = x})

\* the two lists hold the same names
SameSet(l1, l2) == Range(l1) = Range(l2)
\* the two lists hold the same names the same number of times each
SameBag(l1, l2) == \A x \in Range(l1) \cup Range(l2) : Count(x, l1) = Count(x, l2)

UnitsCalls == {r \in issued : r.call = "newUnits"}

\* C16 as claimed: any two newUnits calls made so far whose numerator lists
\* are equal as sets and whose denominator lists are equal as sets returned
\* the identical Units instance.
C16_InternBySet ==
    \A r1, r2 \in UnitsCalls :
        (SameSet(r1.num, r2.num) /\ SameSet(r1.den, r2.den)) => r1.out = r2.out

\* C16 amended: any two newUnits calls made so far whose numerator lists are
\* permutations of each other and whose denominator lists are permutations
\* of each other returned the identical Units instance, whatever calls were
\* made in between.
C16_InternByPermutation ==
    \A r1, r2 \in UnitsCalls :
        (SameBag(r1.num, r2.num) /\ SameBag(r1.den, r2.den)) => r1.out = r2.out

\* C16 witness: newUnits([a, b], [a, b]) and newUnits([b, a], [b, a]) have
\* returned one instance, with a newUnits call of another key made as well.
C16_Witness ==
    \E r1, r2, r3 \in UnitsCalls :
        /\ r1.num = <<<<"a">>, <<"b">>>> /\ r1.den = <<<<"a">>, <<"b">>>>
        /\ r2.num = <<<<"b">>, <<"a">>>> /\ r2.den = <<<<"b">>, <<"a">>>>
        /\ r1.out = r2.out
        /\ r3.out # r1.out

\* C22: any two newUnits calls made so far that returned the identical Units
\* instance had numerator lists equal as sets and denominator lists equal as
\* sets, names that contain ':' included.
C22_InternInjective ==
    \A r1, r2 \in UnitsCalls :
        r1.out = r2.out => (SameSet(r1.num, r2.num) /\ SameSet(r1.den, r2.den))

(***************************************************************************)
(* Properties of the resolver.                                             *)
(***************************************************************************)
Done == result.err # "pending"
Returned == result.err = "none"

\* the chain t op t op ... op t, of n >= 2 terms
InfixChain(ch) ==
    /\ Len(ch) >= 3
    /\ Len(ch) % 2 = 1
    /\ \A k \in 1..Len(ch) : (ch[k] = TermTok) <=> (k % 2 = 1)

ChainOps(ch) == {ch[k] : k \in {j \in 1..Len(ch) : ch[j] # TermTok}}

\* op(op(...op(t1, t2)..., tn-1), tn) over the first n tokens of an infix chain
RECURSIVE LeftNested(_, _)
LeftNested(ch, n) ==
    IF n = 1 THEN Term(0)
    ELSE newFunc(ch[n - 1], <<LeftNested(ch, n - 2), Term(n - 1)>>)

\* op(t1, op(t2, ... op(tn-1, tn))) over the tokens of an infix chain from position k
RECURSIVE RightNested(_, _)
RightNested(ch, k) ==
    IF k = Len(ch) THEN Term(k - 1)
    ELSE newFunc(ch[k + 1], <<Term(k - 1), RightNested(ch, k + 2)>>)

\* the floor under which the right operand of an infix operator was parsed
OperandFloor(op) == IF op.assoc = RIGHT THEN op.bp - 1 ELSE op.bp

\* every infix operator of the tree t, built by a parse started with floor m,
\* has a binding power that strictly exceeds the floor of the parse that
\* consumed it
RECURSIVE FloorsRespected(_, _)
FloorsRespected(t, m) ==
    IF Len(t.args) = 0 THEN TRUE
    ELSE IF Len(t.args) = 1 THEN FloorsRespected(t.args[1], opinfos[t.func].prefixBP)
    ELSE /\ opinfos[t.func].bp > m
         /\ FloorsRespected(t.args[1], m)
         /\ FloorsRespected(t.args[2], OperandFloor(opinfos[t.func]))

\* a op1 b op2 c resolved by precedence
ByPrecedence(op1, op2) ==
    IF opinfos[op2].bp > opinfos[op1].bp
    THEN newFunc(op1, <<Term(0), newFunc(op2, <<Term(2), Term(4)>>)>>)
    ELSE newFunc(op2, <<newFunc(op1, <<Term(0), Term(2)>>), Term(4)>>)

TwoLeftOps ==
    /\ Done
    /\ InfixChain(children)
    /\ Len(children) = 5
    /\ \A o \in ChainOps(children) : o \in DOMAIN opinfos /\ opinfos[o].assoc = LEFT

\* C7 as claimed: for every chain a op1 b op2 c of LEFT-associative operators
\* the resolver returns op1(a, op2(b, c)) when bp(op2) > bp(op1) and
\* op2(op1(a, b), c) when bp(op2) <= bp(op1); and every infix operator a
\* parse with floor m consumed has a binding power above m.
C7_PrecedenceAnyPower ==
    /\ TwoLeftOps => (Returned /\ result.expr = ByPrecedence(children[2], children[4]))
    /\ Returned => FloorsRespected(result.expr, 0)

\* C7 amended: the same, for operators whose binding powers are positive.
C7_Precedence ==
    /\ (TwoLeftOps /\ \A o \in ChainOps(children) : opinfos[o].bp >= 1) =>
          (Returned /\ result.expr = ByPrecedence(children[2], children[4]))
    /\ Returned => FloorsRespected(result.expr, 0)

\* C7 witness: t + t ^ t with bp(^) > bp(+) > 0 has been resolved to +(t, ^(t, t)).
C7_Witness ==
    /\ TwoLeftOps
    /\ children = <<TermTok, "+", TermTok, "^", TermTok>>
    /\ opinfos["+"].bp = 1
    /\ opinfos["^"].bp = 2
    /\ result.expr = newFunc("+", <<Term(0), newFunc("^", <<Term(2), Term(4)>>)>>)

SameLeftPower ==
    /\ Done
    /\ InfixChain(children)
    /\ \A o \in ChainOps(children) : o \in DOMAIN opinfos /\ opinfos[o].assoc = LEFT
    /\ \E bp \in 1..MaxBP : \A o \in ChainOps(children) : opinfos[o].bp = bp

\* C8: a chain t1 op t2 op ... op tn (n >= 2) of LEFT-associative operators
\* with one positive binding power resolves to the fully left-nested tree of
\* two-argument FuncCalls.
C8_LeftAssociative ==
    SameLeftPower => (Returned /\ result.expr = LeftNested(children, Len(children)))

\* C8 witness: t + t ^ t + t, four terms and two operators of one power, has
\* been resolved.
C8_Witness ==
    /\ SameLeftPower
    /\ children = <<TermTok, "+", TermTok, "^", TermTok, "+", TermTok>>
    /\ Returned

\* the chain pre a op b, pre having a prefix binding power
PrefixThenInfix ==
    /\ Done
    /\ Len(children) = 4
    /\ children[1] \in DOMAIN opinfos /\ children[2] = TermTok
    /\ children[3] \in DOMAIN opinfos /\ children[4] = TermTok
    /\ opinfos[children[1]].prefixBP >= 0

PrefixResult(pre, op) ==
    IF opinfos[op].bp <= opinfos[pre].prefixBP
    THEN newFunc(op, <<newFunc(pre, <<Term(1)>>), Term(3)>>)
    ELSE newFunc(pre, <<newFunc(op, <<Term(1), Term(3)>>)>>)

\* the expression nud returned to the outermost parse
RECURSIVE FirstNud(_)
FirstNud(t) == IF Len(t.args) = 2 THEN FirstNud(t.args[1]) ELSE t

\* a chain that opens with a prefix operator resolves, when it resolves, to a
\* tree whose first operand is a one-argument FuncCall named for the operator
PrefixIsUnary ==
    (Returned /\ children[1] # TermTok) =>
        /\ FirstNud(result.expr).func = children[1]
        /\ Len(FirstNud(result.expr).args) = 1

\* C9 as claimed: for every chain pre a op b, pre having prefix binding power
\* p, the result is op(pre(a), b) when bp(op) <= p and pre(op(a, b)) when
\* bp(op) > p.
C9_PrefixAnyOperator ==
    /\ PrefixIsUnary
    /\ PrefixThenInfix => (Returned /\ result.expr = PrefixResult(children[1], children[3]))

\* C9 amended: the same, for an infix operator op that is LEFT- or
\* RIGHT-associative and has a positive binding power; and a chain that opens
\* with a prefix operator resolves to a tree whose first operand is a
\* one-argument FuncCall named for it, its argument parsed with floor p.
C9_Prefix ==
    /\ PrefixIsUnary
    /\ Returned => FloorsRespected(result.expr, 0)
    /\ (/\ PrefixThenInfix
        /\ opinfos[children[3]].assoc \in {LEFT, RIGHT}
        /\ opinfos[children[3]].bp >= 1) =>
          (Returned /\ result.expr = PrefixResult(children[1], children[3]))

\* C9 witness: + t + t with prefix power 2 and infix power 1 has been resolved
\* to +(+(t), t).
C9_Witness ==
    /\ PrefixThenInfix
    /\ children = <<"+", TermTok, "+", TermTok>>
    /\ opinfos["+"].prefixBP = 2
    /\ opinfos["+"].bp = 1
    /\ result.expr = newFunc("+", <<newFunc("+", <<Term(1)>>), Term(3)>>)

SameRightOp ==
    /\ Done
    /\ InfixChain(children)
    /\ \E o \in DOMAIN opinfos : ChainOps(children) = {o} /\ opinfos[o].assoc = RIGHT

\* C10 as claimed: a chain t1 op t2 op ... op tn (n >= 2) of one
\* RIGHT-associative operator resolves to the fully right-nested tree, whatever
\* binding power (0..MaxBP) the table gives the operator.
C10_RightAssociativeAnyPower ==
    SameRightOp => (Returned /\ result.expr = RightNested(children, 1))

\* C10 amended: the same, for an operator whose binding power is positive.
C10_RightAssociative ==
    (SameRightOp /\ \A o \in ChainOps(children) : opinfos[o].bp >= 1) =>
        (Returned /\ result.expr = RightNested(children, 1))

\* C10 witness: t ^ t ^ t ^ t with ^ RIGHT-associative of power 1 has been
\* resolved.
C10_Witness ==
    /\ SameRightOp
    /\ children = <<TermTok, "^", TermTok, "^", TermTok, "^", TermTok>>
    /\ opinfos["^"].bp = 1
    /\ Returned

\* every operator of the table has a positive binding power
PositivePowers == \A s \in DOMAIN opinfos : opinfos[s].bp >= 1

\* the chain holds, at some position, an operator symbol the table lacks
HasUnknown ==
    \E k \in 1..Len(children) : children[k] # TermTok /\ children[k] \notin DOMAIN opinfos

\* C11 as claimed: for every operator table with non-negative binding powers,
\* resolving a chain that holds, at any position, an operator symbol that is
\* not in the table fails with an error.
C11_UnknownAnyPower == (Done /\ HasUnknown) => ~Returned

\* C11 amended: the same, for every operator table whose binding powers are
\* positive.
C11_Unknown == (Done /\ HasUnknown /\ PositivePowers) => ~Returned

\* C11 witness: t + t ^ t with ^ missing from the table and + of power 1 has
\* failed with the unknown-operator error.
C11_Witness ==
    /\ children = <<TermTok, "+", TermTok, "^", TermTok>>
    /\ "^" \notin DOMAIN opinfos
    /\ opinfos["+"].bp = 1
    /\ opinfos["+"].assoc = LEFT
    /\ result.err = "Invalid operator"

\* the chain holds a NONE-associative operator of the table in infix position
NoneInfix ==
    \E k \in 2..Len(children) :
        /\ children[k - 1] = TermTok
        /\ children[k] \in DOMAIN opinfos
        /\ opinfos[children[k]].assoc = NOASSOC

\* C12 as claimed: whenever an operator whose associativity is NONE occurs in
\* infix position of a chain, resolving the chain fails with an error,
\* whatever non-negative binding power the operator has.
C12_NonAssocAnyPower == (Done /\ NoneInfix) => ~Returned

\* C12 amended: the same, under an operator table whose binding powers are
\* positive.
C12_NonAssoc == (Done /\ NoneInfix /\ PositivePowers) => ~Returned

\* C12 witness: t + t with + NONE-associative of power 1 has failed in led.
C12_Witness ==
    /\ children = <<TermTok, "+", TermTok>>
    /\ opinfos["+"].assoc = NOASSOC
    /\ opinfos["+"].bp = 1
    /\ result.err = "nonassoc"

\* a term, or terms and operators alternating from a term to a term
WellFormed(ch) ==
    /\ Len(ch) % 2 = 1
    /\ \A k \in 1..Len(ch) : (ch[k] = TermTok) <=> (k % 2 = 1)

\* the indices of the terms a tree holds, left to right
RECURSIVE Leaves(_)
Leaves(t) ==
    IF Len(t.args) = 0 THEN <<t.index>>
    ELSE IF Len(t.args) = 1 THEN Leaves(t.args[1])
    ELSE Leaves(t.args[1]) \o Leaves(t.args[2])

\* the tokens a tree holds, in order: an infix operator between its operands,
\* a prefix operator before its operand
RECURSIVE Flatten(_)
Flatten(t) ==
    IF Len(t.args) = 0 THEN <<TermTok>>
    ELSE IF Len(t.args) = 1 THEN <<t.func>> \o Flatten(t.args[1])
    ELSE Flatten(t.args[1]) \o <<t.func>> \o Flatten(t.args[2])

\* the indices of the terms of the chain, in order
TermIndices(ch) ==
    LET F[k \in 0..Len(ch)] ==
            IF k = 0 THEN <<>>
            ELSE IF ch[k] = TermTok THEN Append(F[k - 1], k - 1) ELSE F[k - 1]
    IN  F[Len(ch)]

\* every token was consumed, and the tree holds the chain's terms and
\* operators in their order
WholeChain ==
    /\ result.i = Len(children)
    /\ result.consumed = [k \in 1..Len(children) |-> k - 1]
    /\ Leaves(result.expr) = TermIndices(children)
    /\ Flatten(result.expr) = children

\* C17 as claimed: for every operator table with non-negative binding powers,
\* whenever resolving a well-formed chain returns an expression, every token
\* has been consumed and the leaves of the tree, left to right, are the
\* chain's terms in order, no term or operator dropped.
C17_WholeChainAnyPower == (Returned /\ WellFormed(children)) => WholeChain

\* C17 amended: the same, for every operator table whose binding powers are
\* positive.
C17_WholeChainConsumed == (Returned /\ WellFormed(children) /\ PositivePowers) => WholeChain

\* C17 witness: t ^ t + t ^ t with bp(^) = 2 and bp(+) = 1 has been resolved
\* to a tree of all four terms.
C17_Witness ==
    /\ Returned
    /\ children = <<TermTok, "^", TermTok, "+", TermTok, "^", TermTok>>
    /\ opinfos["^"].bp = 2
    /\ opinfos["+"].bp = 1
    /\ Leaves(result.expr) = <<0, 2, 4, 6>>

ResolverErrors ==
    {"No more tokens", "Invalid operator", "Item at index is not an operator",
     "not a prefix operator", "Expressions cannot have an LED method", "nonassoc"}

\* C19: on every chain, of any shape, and under every table, ensureExpr ends:
\* it returns an expression or throws one of its errors; the tokens passed to
\* nud or led are passed in strictly increasing index order, one step at a
\* time from index 0, so none is passed twice, and the cursor ends just past
\* the last of them, within the chain.
C19_ForwardOnly ==
    /\ ~Done => ensureExpr(children, opinfos).err \in ResolverErrors \cup {"none"}
    /\ Done =>
        /\ result.err \in ResolverErrors \cup {"none"}
        /\ result.err = "none" => result.expr # NoExprYet
        /\ \A k \in 1..Len(result.consumed) : result.consumed[k] = k - 1
        /\ result.i = Len(result.consumed)
        /\ result.i <= Len(children)

\* C19 witness: the ill-formed chain t + + t ^ (it ends in an operator) has
\* been handed to the resolver, which consumed all five tokens and failed at
\* the end of the chain.
C19_Witness ==
    /\ children = <<TermTok, "+", "+", TermTok, "^">>
    /\ result.err = "No more tokens"
    /\ result.consumed = <<0, 1, 2, 3, 4>>

====
